---- MODULE Spec2Model ----
(***************************************************************************)
(* Life Explorer: the React frontend (src/frontend/src/App.js) and the     *)
(* Edge Server (src/server/index.js).                                      *)
(*                                                                         *)
(* Spec           the frontend: App, SignUp and SwipeDeck, every async     *)
(*                handler run as a process that stops at each await, and   *)
(*                the backend the handlers talk to.                        *)
(* SpecInterests  the sign-up form: typing the interests text, submitting. *)
(* SpecEdge       the Edge Server's middleware chain, one request at a     *)
(*                time.                                                    *)
(***************************************************************************)
EXTENDS Integers, Sequences, FiniteSets, Bags

VARIABLES
    user,           \* App.user is set (a user is signed up): SwipeDeck is mounted, else SignUp
    signLoading,    \* SignUp.loading
    options,        \* SignUp.options has been loaded
    interests_text, \* SignUp.form.interests_text, a sequence of characters
    cards,          \* SwipeDeck.cards, a sequence of card ids
    loading,        \* SwipeDeck.loading
    procs,          \* the async handler runs in flight, a bag of runs
    store,          \* the backend's Card Store for the signed-up user
    toast,          \* the notification the last step raised ("none" if none)
    logged,         \* the last step called console.error
    BACKEND_URL,    \* Edge Server: process.env.BACKEND_URL is set
    edgePc,         \* Edge Server: "idle", "upstream" (awaiting the backend), "done" (response sent)
    edgeReq,        \* Edge Server: the request being handled
    edgeRes         \* Edge Server: the response sent

feVars == <<user, signLoading, options, interests_text, cards, loading,
            procs, store, toast, logged>>
edgeVars == <<BACKEND_URL, edgePc, edgeReq, edgeRes>>
vars == <<feVars, edgeVars>>

(***************************************************************************)
(* Bounds                                                                  *)
(***************************************************************************)
MaxInflight == 2
MaxCards == 4
MaxLen == 7

(***************************************************************************)
(* Program constants                                                       *)
(***************************************************************************)
Limit == 10
FirstBatch == 8
TopUp == 6
LowWater == 3
MaxInterests == 3
BodyCut == 500

Min(a, b) == IF a < b THEN a ELSE b

\* the four swipe buttons
Directions == {"left", "right", "up", "down"}

(***************************************************************************)
(* Requests and handler runs                                               *)
(***************************************************************************)
\* A request as the handlers build it.  The body's user_id is the signed-up
\* user; the swipe's direction is passed through to the body and read by
\* nothing in the frontend, and is not kept.
Req(m, p, n, c, i) ==
    [method |-> m, path |-> p, count |-> n, card_id |-> c, interests |-> i]

GetCards == Req("GET", "/placer/cards", Limit, 0, <<>>)
PostSuggest(n) == Req("POST", "/placer/suggest", n, 0, <<>>)
PostSwipe(c, d) == Req("POST", "/placer/swipe", 0, c, <<>>)
PostSignup(i) == Req("POST", "/placer/signup", 0, 0, i)
GetOptions == Req("GET", "/placer/options", 0, 0, <<>>)
GetRoot == Req("GET", "/", 0, 0, <<>>)

\* A handler run standing at an await: which handler, which of its awaits
\* (pc), the request awaited, the state of the call (st: "sent", then "ok"
\* once the backend has answered), the response, and the buffer length the
\* swipe closed over (read once, after its first await).  The await rejects
\* when the request or its response is lost: the catch runs from either st.
Run(k, pc, req, n) ==
    [kind |-> k, pc |-> pc, req |-> req, st |-> "sent", resp |-> <<>>, preLen |-> n]

\* the handler issues its next request and awaits it
Await(r, pc, req) ==
    [r EXCEPT !.pc = pc, !.req = req, !.st = "sent", !.resp = <<>>, !.preLen = 0]

Runs == BagToSet(procs)

HasFree == BagCardinality(procs) < MaxInflight

Start(r) == procs (+) SetToBag({r})
Stop(r) == procs (-) SetToBag({r})
Become(r, q) == (procs (-) SetToBag({r})) (+) SetToBag({q})

\* e?.response?.data?.detail || generic
ErrorDescription(detail, generic) == IF detail THEN "detail" ELSE generic

\* The view changes.  React drops the state updates of an unmounted component,
\* and what its runs still send goes to the backend for a user who has left:
\* the runs of the unmounted component are followed no further (App itself,
\* and its hello, stay).
Unmount(b) ==
    LET keep == {r \in BagToSet(b) : r.kind = "hello"}
    IN  [r \in keep |-> b[r]]

(***************************************************************************)
(* The backend the frontend calls (external to the two source files): the  *)
(* Card Store returns the user's not-yet-swiped cards in order, the Card   *)
(* Generator adds cards, the Profile Service creates a user.  Any call may *)
(* fail.  The store is that of the signed-up user.                         *)
(***************************************************************************)
Take(s, n) == SubSeq(s, 1, Min(n, Len(s)))

Unseen(s) ==
    LET F[i \in 0..s.generated] ==
            IF i = 0 THEN <<>>
            ELSE IF i \in s.recorded THEN F[i - 1] ELSE Append(F[i - 1], i)
    IN  F[s.generated]

NewStore == [generated |-> 0, recorded |-> {}]

Pending(r, path) ==
    /\ r \in Runs
    /\ r.st = "sent"
    /\ r.req.path = path

Reply(r, data) == procs' = Become(r, [r EXCEPT !.st = "ok", !.resp = data])

ServeCards(r) ==
    /\ Pending(r, "/placer/cards")
    /\ Reply(r, Take(Unseen(store), r.req.count))
    /\ toast' = "none" /\ logged' = FALSE
    /\ UNCHANGED <<user, signLoading, options, interests_text, cards, loading, store, edgeVars>>

ServeSuggest(r) ==
    /\ Pending(r, "/placer/suggest")
    /\ \E k \in {0, Min(r.req.count, MaxCards - store.generated)} :
           store' = [store EXCEPT !.generated = @ + k]
    /\ Reply(r, <<>>)
    /\ toast' = "none" /\ logged' = FALSE
    /\ UNCHANGED <<user, signLoading, options, interests_text, cards, loading, edgeVars>>

ServeSwipe(r) ==
    /\ Pending(r, "/placer/swipe")
    /\ store' = [store EXCEPT !.recorded = @ \cup {r.req.card_id}]
    /\ Reply(r, <<>>)
    /\ toast' = "none" /\ logged' = FALSE
    /\ UNCHANGED <<user, signLoading, options, interests_text, cards, loading, edgeVars>>

ServeSignup(r) ==
    /\ Pending(r, "/placer/signup")
    /\ Reply(r, <<>>)
    /\ toast' = "none" /\ logged' = FALSE
    /\ UNCHANGED <<user, signLoading, options, interests_text, cards, loading, store, edgeVars>>

ServeOptions(r) ==
    /\ Pending(r, "/placer/options")
    /\ Reply(r, <<>>)
    /\ toast' = "none" /\ logged' = FALSE
    /\ UNCHANGED <<user, signLoading, options, interests_text, cards, loading, store, edgeVars>>

ServeRoot(r) ==
    /\ Pending(r, "/")
    /\ Reply(r, <<>>)
    /\ toast' = "none" /\ logged' = FALSE
    /\ UNCHANGED <<user, signLoading, options, interests_text, cards, loading, store, edgeVars>>

(***************************************************************************)
(* App                                                                     *)
(***************************************************************************)
Resolved(r, k, pc) ==
    /\ r \in Runs
    /\ r.kind = k
    /\ r.pc = pc
    /\ r.st = "ok"

\* the awaited call of a run of handler k rejects
Rejected(r, k) ==
    /\ r \in Runs
    /\ r.kind = k

\* App's mount effect: hello, after its await
HelloDone(r) ==
    /\ Resolved(r, "hello", "root")
    /\ procs' = Stop(r)
    /\ toast' = "none" /\ logged' = FALSE
    /\ UNCHANGED <<user, signLoading, options, interests_text, cards, loading, store, edgeVars>>

\* hello: catch
HelloFail(r) ==
    /\ Rejected(r, "hello")
    /\ logged' = TRUE
    /\ toast' = "none"
    /\ procs' = Stop(r)
    /\ UNCHANGED <<user, signLoading, options, interests_text, cards, loading, store, edgeVars>>

(***************************************************************************)
(* SignUp                                                                  *)
(***************************************************************************)
\* SignUp's mount effect: loadOpts, after its await
LoadOptsDone(r) ==
    /\ Resolved(r, "loadOpts", "options")
    /\ options' = TRUE
    /\ procs' = Stop(r)
    /\ toast' = "none" /\ logged' = FALSE
    /\ UNCHANGED <<user, signLoading, interests_text, cards, loading, store, edgeVars>>

\* loadOpts: catch
LoadOptsFail(r) ==
    /\ Rejected(r, "loadOpts")
    /\ logged' = TRUE
    /\ toast' = "none"
    /\ procs' = Stop(r)
    /\ UNCHANGED <<user, signLoading, options, interests_text, cards, loading, store, edgeVars>>

Chars == {"a", " ", ","}

\* String.prototype.split(",")
RECURSIVE Split(_)
Split(t) ==
    IF \A i \in 1..Len(t) : t[i] # ","
    THEN <<t>>
    ELSE LET i == CHOOSE j \in 1..Len(t) : t[j] = "," /\ \A k \in 1..(j - 1) : t[k] # ","
         IN  <<SubSeq(t, 1, i - 1)>> \o Split(SubSeq(t, i + 1, Len(t)))

\* String.prototype.trim()
RECURSIVE Trim(_)
Trim(t) ==
    IF t = <<>> THEN t
    ELSE IF Head(t) = " " THEN Trim(Tail(t))
    ELSE IF t[Len(t)] = " " THEN Trim(SubSeq(t, 1, Len(t) - 1))
    ELSE t

MapTrim(ss) == [i \in 1..Len(ss) |-> Trim(ss[i])]

\* Array.prototype.filter(Boolean) on strings: the empty string is falsy
RECURSIVE FilterBoolean(_)
FilterBoolean(ss) ==
    IF ss = <<>> THEN <<>>
    ELSE IF Head(ss) = <<>> THEN FilterBoolean(Tail(ss))
    ELSE <<Head(ss)>> \o FilterBoolean(Tail(ss))

\* the same pipeline with slice(0, 3) before filter(Boolean)
Interests_sliceBeforeFilter(text) == FilterBoolean(MapTrim(Take(Split(text), MaxInterests)))

\* form.interests_text.split(",").map((s) => s.trim()).filter(Boolean).slice(0, 3)
Interests(text) == Take(FilterBoolean(MapTrim(Split(text))), MaxInterests)

\* handle: the user types one more character into the interests input
Handle(c) ==
    /\ ~user
    /\ Len(interests_text) < MaxLen
    /\ interests_text' = Append(interests_text, c)
    /\ toast' = "none" /\ logged' = FALSE
    /\ UNCHANGED <<user, signLoading, options, cards, loading, procs, store, edgeVars>>

\* submit, up to its await; the submit button is disabled while loading
Submit ==
    /\ ~user
    /\ ~signLoading
    /\ HasFree
    /\ signLoading' = TRUE
    /\ procs' = Start(Run("submit", "signup", PostSignup(Interests(interests_text)), 0))
    /\ toast' = "none" /\ logged' = FALSE
    /\ UNCHANGED <<user, options, interests_text, cards, loading, store, edgeVars>>

\* submit after its await resolved: toast, onCreated(r.data); App renders the
\* SwipeDeck for the new user (whose store holds no card yet), and the deck's
\* mount effect runs fetchCards up to its first await
SubmitOk(r) ==
    /\ Resolved(r, "submit", "signup")
    /\ toast' = "Profile created"
    /\ logged' = FALSE
    /\ user' = TRUE
    /\ signLoading' = FALSE
    /\ options' = FALSE
    /\ interests_text' = <<>>
    /\ cards' = <<>>
    /\ loading' = TRUE
    /\ store' = NewStore
    /\ procs' = Unmount(procs) (+) SetToBag({Run("fetch", "get1", GetCards, 0)})
    /\ UNCHANGED edgeVars

\* submit: catch and finally
SubmitFail(r, detail) ==
    /\ Rejected(r, "submit")
    /\ logged' = TRUE
    /\ toast' = ErrorDescription(detail, "Failed to create profile")
    /\ signLoading' = FALSE
    /\ procs' = Stop(r)
    /\ UNCHANGED <<user, options, interests_text, cards, loading, store, edgeVars>>

(***************************************************************************)
(* SwipeDeck                                                               *)
(***************************************************************************)
\* the same test passing a single card as well
NoCards_atMostOne(data) == Len(data) <= 1

\* (r.data || []).length === 0
NoCards(data) == Len(data) = 0

\* the same test one card higher
NeedsTopUp_offByOne(n) == n <= LowWater + 1

\* cards.length <= 3, on the length the swipe closed over
NeedsTopUp(n) == n <= LowWater

\* the same update dropping the last card instead
RemoveTop_last(c) == SubSeq(c, 1, Len(c) - 1)

\* setCards((c) => c.slice(1))
RemoveTop(c) == Tail(c)


\* fetchCards up to its first await: the Refresh button
FetchCards ==
    /\ user
    /\ HasFree
    /\ loading' = TRUE
    /\ procs' = Start(Run("fetch", "get1", GetCards, 0))
    /\ toast' = "none" /\ logged' = FALSE
    /\ UNCHANGED <<user, signLoading, options, interests_text, cards, store, edgeVars>>

\* fetchCards after the first GET resolved
FetchGet1Done(r) ==
    /\ Resolved(r, "fetch", "get1")
    /\ IF NoCards(r.resp)
       THEN /\ procs' = Become(r, Await(r, "suggest", PostSuggest(FirstBatch)))
            /\ UNCHANGED <<cards, loading>>
       ELSE /\ cards' = r.resp
            /\ loading' = FALSE
            /\ procs' = Stop(r)
    /\ toast' = "none" /\ logged' = FALSE
    /\ UNCHANGED <<user, signLoading, options, interests_text, store, edgeVars>>

\* fetchCards after POST /placer/suggest resolved
FetchSuggestDone(r) ==
    /\ Resolved(r, "fetch", "suggest")
    /\ procs' = Become(r, Await(r, "get2", GetCards))
    /\ toast' = "none" /\ logged' = FALSE
    /\ UNCHANGED <<user, signLoading, options, interests_text, cards, loading, store, edgeVars>>

\* fetchCards after the second GET resolved
FetchGet2Done(r) ==
    /\ Resolved(r, "fetch", "get2")
    /\ cards' = r.resp
    /\ loading' = FALSE
    /\ procs' = Stop(r)
    /\ toast' = "none" /\ logged' = FALSE
    /\ UNCHANGED <<user, signLoading, options, interests_text, store, edgeVars>>

\* fetchCards: catch and finally
FetchFail(r, detail) ==
    /\ Rejected(r, "fetch")
    /\ logged' = TRUE
    /\ toast' = ErrorDescription(detail, "Failed to fetch cards")
    /\ loading' = FALSE
    /\ procs' = Stop(r)
    /\ UNCHANGED <<user, signLoading, options, interests_text, cards, store, edgeVars>>

\* swipe(direction) up to its await
Swipe(d) ==
    /\ user
    /\ IF Len(cards) = 0
       THEN UNCHANGED <<cards, procs>>
       ELSE /\ HasFree
            /\ cards' = RemoveTop(cards)
            /\ procs' = Start(Run("swipe", "post", PostSwipe(cards[1], d), Len(cards)))
    /\ toast' = "none" /\ logged' = FALSE
    /\ UNCHANGED <<user, signLoading, options, interests_text, loading, store, edgeVars>>

\* swipe after POST /placer/swipe resolved
SwipePostDone(r) ==
    /\ Resolved(r, "swipe", "post")
    /\ IF NeedsTopUp(r.preLen)
       THEN procs' = Become(r, Await(r, "suggest", PostSuggest(TopUp)))
       ELSE procs' = Stop(r)
    /\ toast' = "none" /\ logged' = FALSE
    /\ UNCHANGED <<user, signLoading, options, interests_text, cards, loading, store, edgeVars>>

\* swipe after POST /placer/suggest resolved
SwipeSuggestDone(r) ==
    /\ Resolved(r, "swipe", "suggest")
    /\ procs' = Become(r, Await(r, "get", GetCards))
    /\ toast' = "none" /\ logged' = FALSE
    /\ UNCHANGED <<user, signLoading, options, interests_text, cards, loading, store, edgeVars>>

\* swipe after the follow-up GET resolved
SwipeGetDone(r) ==
    /\ Resolved(r, "swipe", "get")
    /\ cards' = r.resp
    /\ procs' = Stop(r)
    /\ toast' = "none" /\ logged' = FALSE
    /\ UNCHANGED <<user, signLoading, options, interests_text, loading, store, edgeVars>>

\* swipe: catch
SwipeFail(r) ==
    /\ Rejected(r, "swipe")
    /\ logged' = TRUE
    /\ toast' = "none"
    /\ procs' = Stop(r)
    /\ UNCHANGED <<user, signLoading, options, interests_text, cards, loading, store, edgeVars>>

\* Exit: onExit sets user to null; App renders a new SignUp, whose mount
\* effect runs loadOpts up to its await
Exit ==
    /\ user
    /\ user' = FALSE
    /\ signLoading' = FALSE
    /\ options' = FALSE
    /\ interests_text' = <<>>
    /\ cards' = <<>>
    /\ loading' = FALSE
    /\ store' = NewStore
    /\ procs' = Unmount(procs) (+) SetToBag({Run("loadOpts", "options", GetOptions, 0)})
    /\ toast' = "none" /\ logged' = FALSE
    /\ UNCHANGED edgeVars

(***************************************************************************)
(* The Edge Server                                                         *)
(***************************************************************************)
Methods == {"GET", "POST"}
Paths == {"/", "/static/main.js", "/deck", "/api/hello", "/api/_debug", "/api/placer/options"}

\* the files of ../frontend/build
BuildFiles == {"/index.html", "/static/main.js"}

\* what the backend may answer: a status and a body of some length
UpstreamStatuses == {200, 404, 500}
UpstreamLengths == {0, BodyCut - 1, BodyCut, BodyCut + 1}

IsApi(path) == path \in {"/api/hello", "/api/_debug", "/api/placer/options"}

\* the middlewares and routes in the order index.js registers them
Chain ==
    (IF BACKEND_URL THEN <<"proxy">> ELSE <<>>) \o <<"hello", "debug", "static", "fallback">>

\* whether a middleware or route takes the request (the others call next)
Takes(h, m, path) ==
    CASE h = "proxy" -> IsApi(path)
      [] h = "hello" -> m = "GET" /\ path = "/api/hello"
      [] h = "debug" -> m = "GET" /\ path = "/api/_debug"
      [] h = "static" -> m = "GET" /\ (path \in BuildFiles \/ path = "/")
      [] h = "fallback" -> m = "GET"

\* the first of the chain that takes the request; "none": Express's own 404
Route(m, path) ==
    LET takers == {i \in 1..Len(Chain) : Takes(Chain[i], m, path)}
    IN  IF takers = {} THEN "none"
        ELSE Chain[CHOOSE i \in takers : \A j \in takers : i <= j]

NoResponse == [by |-> "none", status |-> 0, body |-> "none", probe |-> 0, len |-> 0, upstream |-> 0]

Response(h, status, body, probe, len, up) ==
    [by |-> h, status |-> status, body |-> body, probe |-> probe, len |-> len, upstream |-> up]

\* text.slice(0, 500)
Slice(len) == Min(len, BodyCut)

\* a request arrives and runs down the chain, up to the handler's first await
EdgeRequest(m, path) ==
    /\ edgePc \in {"idle", "done"}
    /\ edgeReq' = [method |-> m, path |-> path]
    /\ LET h == Route(m, path)
       IN  CASE h = "proxy" ->
                    edgePc' = "upstream" /\ edgeRes' = Response("proxy", 0, "none", 0, 0, 1)
             [] h = "hello" ->
                    edgePc' = "done" /\ edgeRes' = Response("hello", 200, "msg", 0, 0, 0)
             [] h = "debug" ->
                    IF ~BACKEND_URL
                    THEN edgePc' = "done" /\ edgeRes' = Response("debug", 500, "BACKEND_URL unset", 0, 0, 0)
                    ELSE edgePc' = "upstream" /\ edgeRes' = Response("debug", 0, "none", 0, 0, 1)
             [] h = "static" ->
                    edgePc' = "done" /\ edgeRes' = Response("static", 200, "file", 0, 0, 0)
             [] h = "fallback" ->
                    edgePc' = "done" /\ edgeRes' = Response("fallback", 200, "index.html", 0, 0, 0)
             [] OTHER ->
                    edgePc' = "done" /\ edgeRes' = Response("none", 404, "none", 0, 0, 0)
    /\ UNCHANGED <<BACKEND_URL, feVars>>

\* the backend answers: the proxy pipes the answer through, the debug route
\* reports it
EdgeUpstreamReply(status, len) ==
    /\ edgePc = "upstream"
    /\ edgePc' = "done"
    /\ edgeRes' = IF edgeRes.by = "proxy"
                  THEN Response("proxy", status, "upstream", 0, len, 1)
                  ELSE Response("debug", 200, "target,status,body", status, Slice(len), 1)
    /\ UNCHANGED <<BACKEND_URL, edgeReq, feVars>>

\* the backend cannot be reached
EdgeUpstreamFail ==
    /\ edgePc = "upstream"
    /\ edgePc' = "done"
    /\ edgeRes' = IF edgeRes.by = "proxy"
                  THEN Response("proxy", 504, "proxy error", 0, 0, 1)
                  ELSE Response("debug", 500, "error", 0, 0, 1)
    /\ UNCHANGED <<BACKEND_URL, edgeReq, feVars>>

EdgeIdle ==
    /\ edgePc = "idle"
    /\ edgeReq = [method |-> "none", path |-> "none"]
    /\ edgeRes = NoResponse

(***************************************************************************)
(* The frontend's specification                                            *)
(***************************************************************************)
\* App and SignUp are mounted: loadOpts and hello stand at their awaits
FrontendInit ==
    /\ user = FALSE
    /\ signLoading = FALSE
    /\ options = FALSE
    /\ interests_text = <<>>
    /\ cards = <<>>
    /\ loading = FALSE
    /\ procs = SetToBag({Run("loadOpts", "options", GetOptions, 0), Run("hello", "root", GetRoot, 0)})
    /\ store = NewStore
    /\ toast = "none"
    /\ logged = FALSE

Init == FrontendInit /\ BACKEND_URL = FALSE /\ EdgeIdle

Backend ==
    \E r \in Runs :
        \/ ServeCards(r)
        \/ ServeSuggest(r)
        \/ ServeSwipe(r)
        \/ ServeSignup(r)
        \/ ServeOptions(r)
        \/ ServeRoot(r)

Next ==
    \/ Backend
    \/ \E r \in Runs : HelloDone(r)
    \/ \E r \in Runs : HelloFail(r)
    \/ \E r \in Runs : LoadOptsDone(r)
    \/ \E r \in Runs : LoadOptsFail(r)
    \/ Submit
    \/ \E r \in Runs : SubmitOk(r)
    \/ \E r \in Runs, detail \in BOOLEAN : SubmitFail(r, detail)
    \/ FetchCards
    \/ \E r \in Runs : FetchGet1Done(r)
    \/ \E r \in Runs : FetchSuggestDone(r)
    \/ \E r \in Runs : FetchGet2Done(r)
    \/ \E r \in Runs, detail \in BOOLEAN : FetchFail(r, detail)
    \/ \E d \in Directions : Swipe(d)
    \/ \E r \in Runs : SwipePostDone(r)
    \/ \E r \in Runs : SwipeSuggestDone(r)
    \/ \E r \in Runs : SwipeGetDone(r)
    \/ \E r \in Runs : SwipeFail(r)
    \/ Exit

Spec == Init /\ [][Next]_vars

(***************************************************************************)
(* The sign-up form's specification: SignUp is mounted, loadOpts and hello *)
(* have resolved; the user types, submits, and submits again after a       *)
(* failure.                                                                *)
(***************************************************************************)
InitInterests ==
    /\ user = FALSE
    /\ signLoading = FALSE
    /\ options = TRUE
    /\ interests_text = <<>>
    /\ cards = <<>>
    /\ loading = FALSE
    /\ procs = EmptyBag
    /\ store = NewStore
    /\ toast = "none"
    /\ logged = FALSE
    /\ BACKEND_URL = FALSE
    /\ EdgeIdle

NextInterests ==
    \/ \E c \in Chars : Handle(c)
    \/ Submit
    \/ \E r \in Runs, detail \in BOOLEAN : SubmitFail(r, detail)

SpecInterests == InitInterests /\ [][NextInterests]_vars

(***************************************************************************)
(* The Edge Server's specification                                         *)
(***************************************************************************)
InitEdge == FrontendInit /\ BACKEND_URL \in BOOLEAN /\ EdgeIdle

NextEdge ==
    \/ \E m \in Methods, path \in Paths : EdgeRequest(m, path)
    \/ \E status \in UpstreamStatuses, len \in UpstreamLengths : EdgeUpstreamReply(status, len)
    \/ EdgeUpstreamFail

SpecEdge == InitEdge /\ [][NextEdge]_vars

(***************************************************************************)
(* Reading a step off the bag of runs                                      *)
(***************************************************************************)
\* the runs that left their state in this step, and the runs that reached theirs
Stepped == {r \in DOMAIN procs : CopiesIn(r, procs) > CopiesIn(r, procs')}
Arrived == {q \in DOMAIN procs' : CopiesIn(q, procs') > CopiesIn(q, procs)}

\* the backend answered r's request in this step
Served(r) == r.st = "sent" /\ \E q \in Arrived : q = [r EXCEPT !.st = "ok", !.resp = q.resp]

\* r went on past its await in this step (resolved or rejected), in a view that stays
Continued(r) == r \in Stepped /\ ~Served(r) /\ user' = user

\* r's await resolved in this step: it went on, and not through its catch
AwaitResolved(r) == Continued(r) /\ r.st = "ok" /\ ~logged'

\* r's await rejected in this step
AwaitRejected(r) == Continued(r) /\ (r.st = "sent" \/ logged')

\* q is a swipe that began in this step
SwipeBegan(q) == q \in Arrived /\ q.kind = "swipe" /\ q.pc = "post" /\ q.st = "sent"

(***************************************************************************)
(* C1: for every swipe begun with 1 to 3 cards in the buffer, exactly one  *)
(* POST /placer/suggest with count 6 and then exactly one GET              *)
(* /placer/cards follow, and the buffer is replaced by that GET's result,  *)
(* whether the POST /placer/swipe succeeded or failed.                     *)
(***************************************************************************)
C1_TopUpWhateverTheSwipeOutcome ==
    [][\A r \in Stepped :
          (Continued(r) /\ r.kind = "swipe") =>
              /\ (r.pc = "post" /\ r.preLen \in 1..LowWater) =>
                     Arrived = {Await(r, "suggest", PostSuggest(TopUp))}
              /\ (r.pc = "suggest" /\ AwaitResolved(r)) =>
                     Arrived = {Await(r, "get", GetCards)}
              /\ (r.pc = "get" /\ AwaitResolved(r)) =>
                     Arrived = {} /\ cards' = r.resp]_vars

(***************************************************************************)
(* C2: a swipe begun with more than 3 cards in the buffer issues no POST   *)
(* /placer/suggest and no GET /placer/cards: it sends the one POST         *)
(* /placer/swipe and ends after it, and the buffer is the previous buffer  *)
(* without its first card, untouched by the rest of the swipe.             *)
(***************************************************************************)
C2_NoTopUpAboveLowWater ==
    [][/\ \A q \in Arrived :
              (SwipeBegan(q) /\ q.preLen > LowWater) =>
                  /\ Len(cards) = q.preLen
                  /\ cards' = Tail(cards)
                  /\ q.req.path = "/placer/swipe"
       /\ \A r \in Stepped :
              (r.kind = "swipe" /\ r.pc = "post" /\ r.preLen > LowWater /\ user' = user) =>
                  /\ cards' = cards
                  /\ \A q \in Arrived : q.req.path = "/placer/swipe"
                  /\ Continued(r) => Arrived = {}]_vars

C2_Witness ==
    /\ user
    /\ Len(cards) = LowWater
    /\ \E r \in Runs : r.kind = "swipe" /\ r.pc = "post" /\ r.st = "ok" /\ r.preLen = LowWater + 1

(***************************************************************************)
(* C3: a swipe on a non-empty buffer removes exactly the first card and    *)
(* sends that card's id in POST /placer/swipe, before the call resolves;   *)
(* nothing the swipe does after that POST, failure included, puts the card *)
(* back; no swipe begins, and no request is sent, on an empty buffer.      *)
(***************************************************************************)
C3_SwipeRemovesTop ==
    [][/\ \A q \in Arrived :
              SwipeBegan(q) =>
                  /\ cards # <<>>
                  /\ cards' = Tail(cards)
                  /\ q.req = PostSwipe(Head(cards), "left")
                  /\ q.req.card_id = cards[1]
                  /\ Arrived = {q}
       /\ \A r \in Stepped :
              (Continued(r) /\ r.kind = "swipe" /\ r.pc = "post") => cards' = cards
       /\ cards = <<>> => \A q \in Arrived : ~SwipeBegan(q)]_vars

C3_Witness ==
    /\ user
    /\ \E r \in Runs :
           /\ r.kind = "swipe" /\ r.pc = "post" /\ r.st = "sent"
           /\ Len(cards) = r.preLen - 1
           /\ \A i \in 1..Len(cards) : cards[i] # r.req.card_id

(***************************************************************************)
(* C4: a run of fetchCards sends POST /placer/suggest if and only if its   *)
(* first GET /placer/cards returned no card; it then sends it once, with   *)
(* count 8, before the second GET, and when the second GET returns no card *)
(* either the view ends with loading false and an empty buffer and no      *)
(* notification.  When the first GET returns a card the buffer becomes     *)
(* that result and nothing is generated.                                   *)
(***************************************************************************)
C4_GenerateIffFirstFetchEmpty ==
    [][/\ \A q \in Arrived :
              (q.kind = "fetch" /\ q.pc = "get1") => q.req = GetCards
       /\ \A r \in Stepped :
              (Continued(r) /\ r.kind = "fetch") =>
                  /\ (\E q \in Arrived : q.req.path = "/placer/suggest")
                         <=> (r.pc = "get1" /\ AwaitResolved(r) /\ Len(r.resp) = 0)
                  /\ (\E q \in Arrived : q.req.path = "/placer/suggest") =>
                         /\ Arrived = {Await(r, "suggest", PostSuggest(FirstBatch))}
                         /\ cards' = cards
                  /\ (r.pc = "get1" /\ AwaitResolved(r) /\ Len(r.resp) > 0) =>
                         /\ Arrived = {}
                         /\ cards' = r.resp
                         /\ loading' = FALSE
                  /\ (\E q \in Arrived : q.req.path = "/placer/cards")
                         <=> (r.pc = "suggest" /\ AwaitResolved(r))
                  /\ (r.pc = "suggest" /\ AwaitResolved(r)) =>
                         Arrived = {Await(r, "get2", GetCards)}
                  /\ (r.pc = "get2" /\ AwaitResolved(r)) =>
                         /\ Arrived = {}
                         /\ cards' = r.resp
                         /\ loading' = FALSE
                         /\ toast' = "none"]_vars

C4_Witness ==
    /\ user
    /\ \E r \in Runs : r.kind = "fetch" /\ r.pc = "get2" /\ r.st = "ok" /\ r.resp = <<>>

(***************************************************************************)
(* C5: a card that has been swiped, its swipe recorded by the Card Store   *)
(* (which returns no such card), is not in the buffer again, whatever the  *)
(* interleaving of swipes, top-ups and Refresh.                            *)
(***************************************************************************)
C5_SwipedCardNeverBack ==
    user => \A i \in 1..Len(cards) : cards[i] \notin store.recorded

(***************************************************************************)
(* C6: at most one buffer-replacing request sequence (a fetchCards run or  *)
(* a swipe that tops up) is in flight at any time.                         *)
(***************************************************************************)
Replacing(r) ==
    \/ r.kind = "fetch"
    \/ r.kind = "swipe" /\ (r.pc # "post" \/ r.preLen <= LowWater)

C6_OneSequenceInFlight ==
    BagCardinality([r \in {x \in Runs : Replacing(x)} |-> procs[r]]) <= 1

(***************************************************************************)
(* C7: every rejected call other than POST /placer/swipe is logged and     *)
(* raises a notification.                                                  *)
(***************************************************************************)
C7_EveryFailureNotified ==
    [][\A r \in Stepped :
          (AwaitRejected(r) /\ r.req.path # "/placer/swipe") =>
              (logged' /\ toast' # "none")]_vars

(***************************************************************************)
(* C10: in the SwipeDeck, loading is true exactly while a fetchCards run   *)
(* is in flight.                                                           *)
(***************************************************************************)
C10_LoadingIffFetching ==
    user => (loading <=> \E r \in Runs : r.kind = "fetch")

(***************************************************************************)
(* C8: every GET /api/_debug is answered by the local diagnostic handler:  *)
(* with no backend URL, HTTP 500 and {error: "BACKEND_URL unset"} and no   *)
(* upstream request; with a backend URL, one upstream GET, the upstream    *)
(* status and the upstream body cut to 500 characters.  GET /api/hello is  *)
(* always answered with the fixed local payload.                           *)
(***************************************************************************)
C8_DebugAnsweredLocally ==
    edgePc = "done" /\ edgeReq.method = "GET" =>
        /\ edgeReq.path = "/api/_debug" =>
               /\ edgeRes.by = "debug"
               /\ ~BACKEND_URL =>
                      /\ edgeRes.status = 500
                      /\ edgeRes.body = "BACKEND_URL unset"
                      /\ edgeRes.upstream = 0
               /\ BACKEND_URL =>
                      /\ edgeRes.upstream = 1
                      /\ edgeRes.len <= BodyCut
        /\ edgeReq.path = "/api/hello" =>
               /\ edgeRes.by = "hello"
               /\ edgeRes.body = "msg"

(***************************************************************************)
(* C9: the interests sent in POST /placer/signup are the first up-to-3     *)
(* non-blank entries of the text split on commas, trimmed, in order: at    *)
(* most 3, none empty or blank.                                            *)
(***************************************************************************)
\* the positions just outside each comma-separated piece of t
Cuts(t) == {0, Len(t) + 1} \cup {i \in 1..Len(t) : t[i] = ","}

\* the pieces of t that hold something other than blanks, as (from, to)
\* pairs of their first and last non-blank position
Pieces(t) ==
    {<<a, b>> \in (1..Len(t)) \X (1..Len(t)) :
        /\ a <= b
        /\ t[a] \notin {" ", ","} /\ t[b] \notin {" ", ","}
        /\ \A i \in a..b : t[i] # ","
        /\ \A i \in 1..(a - 1) : (\A j \in i..(a - 1) : t[j] # ",") => t[i] = " "
        /\ \A i \in (b + 1)..Len(t) : (\A j \in (b + 1)..i : t[j] # ",") => t[i] = " "}

\* i is the Min(3, number of pieces) first pieces of t, in order
FirstPieces(t, i) ==
    /\ Len(i) = Min(MaxInterests, Cardinality(Pieces(t)))
    /\ \A k \in 1..Len(i) :
           \E p \in Pieces(t) :
               /\ Cardinality({q \in Pieces(t) : q[1] <= p[1]}) = k
               /\ i[k] = SubSeq(t, p[1], p[2])

C9_InterestsCapped ==
    [][\A q \in Arrived :
          q.kind = "submit" =>
              /\ q.req.path = "/placer/signup"
              /\ Len(q.req.interests) <= MaxInterests
              /\ \A k \in 1..Len(q.req.interests) :
                     \E j \in 1..Len(q.req.interests[k]) : q.req.interests[k][j] # " "
              /\ FirstPieces(interests_text, q.req.interests)]_vars

C9_Witness ==
    /\ interests_text = <<" ", ",", "a", ",", "a", " ", "a">>
    /\ \E r \in Runs : r.kind = "submit" /\ r.req.interests = << <<"a">>, <<"a", " ", "a">> >>

====
